---- MODULE Spec2Model ----
(***************************************************************************)
(* A model of wok's Engine (src/wok/engine.py): the site generator's       *)
(* pipeline read_options -> sanity_check -> prepare_output -> load_pages   *)
(* -> make_tree -> render_site.                                            *)
(*                                                                         *)
(* A page is identified by a number (the identity of the Page object and   *)
(* of its meta mapping, which the code shares by reference between         *)
(* all_pages, the category listings, the tag index and the forest).        *)
(* Pages 1..7 are the content files; larger numbers are the pages that     *)
(* render steps return.                                                    *)
(***************************************************************************)
EXTENDS Integers, Sequences, FiniteSets, TLC

\* Bounds of the model.
MaxFiles == 3      \* content files found by one os.walk
MaxSpawn == 2      \* pages returned by all render steps of one run

(***************************************************************************)
(* The content files a run may find.  page.Page (not in src/) parses each  *)
(* into its meta mapping; the engine reads slug, category, tags and        *)
(* published, and make_tree fills subpages.  hidden says that the file's  *)
(* name starts with a dot; load_pages never parses such a file.           *)
(***************************************************************************)
FileMeta ==
    << [slug |-> "a", category |-> <<>>,         tags |-> {"t1"},       published |-> TRUE,  hidden |-> FALSE],
       [slug |-> "b", category |-> <<"a">>,      tags |-> {"t1", "t2"}, published |-> TRUE,  hidden |-> FALSE],
       [slug |-> "c", category |-> <<"a", "b">>, tags |-> {},           published |-> TRUE,  hidden |-> FALSE],
       [slug |-> "a", category |-> <<>>,         tags |-> {"t2"},       published |-> TRUE,  hidden |-> FALSE],
       [slug |-> "d", category |-> <<"b">>,      tags |-> {"t2"},       published |-> TRUE,  hidden |-> FALSE],
       [slug |-> "e", category |-> <<>>,         tags |-> {"t1"},       published |-> FALSE, hidden |-> FALSE],
       [slug |-> "h", category |-> <<"a">>,      tags |-> {"t3"},       published |-> TRUE,  hidden |-> TRUE] >>

FileIds == DOMAIN FileMeta

\* The pages render steps return (a paginated continuation of a listing).
SpawnIds == (Len(FileMeta) + 1) .. (Len(FileMeta) + MaxSpawn)

SpawnMeta ==
    [slug |-> "a2", category |-> <<"a">>, tags |-> {"t1"}, published |-> TRUE]

PageIds == FileIds \cup SpawnIds

meta(pg) == IF pg \in FileIds THEN FileMeta[pg] ELSE SpawnMeta

Range(s) == { s[i] : i \in DOMAIN s }

\* Every sequence of distinct elements of S of length at most n.
RECURSIVE DistinctSeqs(_, _)
DistinctSeqs(S, n) ==
    IF n = 0 THEN { <<>> }
    ELSE LET shorter == DistinctSeqs(S, n - 1)
         IN  shorter \cup
             UNION { { Append(s, x) : x \in S \ Range(s) } :
                     s \in { t \in shorter : Len(t) = n - 1 } }

NoDuplicates(s) == \A i, j \in DOMAIN s : i # j => s[i] # s[j]

(***************************************************************************)
(* Configuration.                                                          *)
(***************************************************************************)
default_options ==
    [content_dir  |-> "content",
     template_dir |-> "templates",
     output_dir   |-> "output",
     media_dir    |-> "media",
     site_title   |-> "Some random Wok site",
     url_pattern  |-> "/{category}/{slug}{page}.{type}"]

\* What the config file may hold: the keys it sets and their values.
YamlValue ==
    [author |-> "joe", foo |-> "bar", site_title |-> "My site",
     templates_dir |-> "tpl", content_dir |-> "src", template_dir |-> "tpl"]

YamlConfigs == { {}, {"author", "foo", "site_title", "templates_dir"} }

\* Config files that move the content root and the template root.
RootConfigs == { {}, {"content_dir", "template_dir"} }

(***************************************************************************)
(* The working directory.  A layout is the set of directories that exist   *)
(* when the run starts; an output directory left by an earlier run holds   *)
(* StaleFiles, and a media directory holds MediaEntries in os.listdir      *)
(* order.                                                                  *)
(***************************************************************************)
Layouts ==
    { {"content", "templates", "media", "output"},
      {"content"},
      {"templates", "media"},
      {},
      {"src", "tpl", "media"},
      {"media", "output"} }

\* The layout of the runs that vary the content files and the config file.
PlainLayout == {"content", "templates"}

StaleFiles == {"old.html", "logo.png"}

MediaEntries == << "logo.png", "css" >>

\* The content files of the runs that vary the layout: a published page, an
\* unpublished page and a hidden file.
LayoutContent == << 1, 6, 7 >>

\* page.Author.parse (not in src/) of a comma separated author string.
ParseAuthors(s) == IF s = "joe" THEN "[Author(joe)]" ELSE "[Author(?)]"

\* dict.update and item assignment.
DictPut(d, k, v) == [x \in DOMAIN d \cup {k} |-> IF x = k THEN v ELSE d[x]]

EmptyDict == [k \in {} |-> <<>>]

\* read_options: the defaults, updated by the config file, then authors.
ReadOptionsResult(keys) ==
    LET updated == [k \in DOMAIN default_options \cup keys |->
                        IF k \in keys THEN YamlValue[k] ELSE default_options[k]]
    IN  IF "author" \in DOMAIN updated
        THEN DictPut(updated, "authors", ParseAuthors(updated["author"]))
        ELSE updated

VARIABLES
    pc,           \* the statement of Engine.__init__ / render_site that runs next
    yaml_config,  \* the keys the config file sets
    content,      \* the content files, in os.walk order
    options,      \* self.options
    all_pages,    \* self.all_pages
    categories,   \* self.categories: top-level slug -> listing
    site_tree,    \* make_tree's local site_tree: the roots of the forest
    subpages,     \* meta['subpages'] of every page
    tree_i,       \* how many pages make_tree's loop has processed
    orphans,      \* the pages make_tree's logging.error has named
    tag_dict,     \* render_site's tag_dict
    cursor,       \* the index held by the iterator of "for p in self.all_pages"
    p,            \* render_site's loop variable
    templ_vars,   \* the template context of the current page
    new_pages,    \* what p.render returned
    render_log,   \* the pages whose render step was invoked, in order
    written,      \* the pages whose write step completed, in order
    clock,        \* datetime.now()
    dirs,         \* the directories of the working directory that exist
    stale,        \* the files the output directory held when the run started
    media,        \* os.listdir of the media directory
    output,       \* the files the output directory holds
    copied,       \* how many media entries prepare_output's loop has copied
    copy_error    \* the exception prepare_output's try block raised, if any

\* The working directory and prepare_output's trace in it.
disk == << dirs, stale, media, output, copied, copy_error >>

vars == << pc, yaml_config, content, options, all_pages, categories, site_tree,
           subpages, tree_i, orphans, tag_dict, cursor, p, templ_vars,
           new_pages, render_log, written, clock, dirs, stale, media, output,
           copied, copy_error >>

NoContext ==
    [keys |-> {},
     site |-> [title |-> "", datetime |-> 0, tags |-> EmptyDict, pages |-> <<>>,
               categories |-> EmptyDict, opts |-> [k \in {} |-> ""]]]

Init ==
    /\ pc = "read_options"
    /\ \/ /\ yaml_config \in YamlConfigs
          /\ content \in DistinctSeqs({ f \in FileIds : ~FileMeta[f].hidden }, MaxFiles)
          /\ dirs = PlainLayout
       \/ /\ yaml_config \in RootConfigs
          /\ content = LayoutContent
          /\ dirs \in Layouts
    /\ stale = IF "output" \in dirs THEN StaleFiles ELSE {}
    /\ media = IF "media" \in dirs THEN MediaEntries ELSE <<>>
    /\ output = stale
    /\ copied = 0
    /\ copy_error = "none"
    /\ options = default_options
    /\ all_pages = <<>>
    /\ categories = EmptyDict
    /\ site_tree = <<>>
    /\ subpages = [q \in PageIds |-> <<>>]
    /\ tree_i = 0
    /\ orphans = <<>>
    /\ tag_dict = EmptyDict
    /\ cursor = 0
    /\ p = 0
    /\ templ_vars = NoContext
    /\ new_pages = <<>>
    /\ render_log = <<>>
    /\ written = <<>>
    /\ clock = 0

(***************************************************************************)
(* read_options, sanity_check, prepare_output and load_pages.              *)
(***************************************************************************)
ReadOptions ==
    /\ pc = "read_options"
    /\ options' = ReadOptionsResult(yaml_config)
    /\ pc' = "sanity_check"
    /\ UNCHANGED << yaml_config, content, disk, all_pages, categories, site_tree,
                    subpages, tree_i, orphans, tag_dict, cursor, p, templ_vars,
                    new_pages, render_log, written, clock >>

\* sanity_check tests two literal directory names, whatever the options say.
SanityDirs == { "templates", "content" }

LooksLikeSite(d) == \E name \in SanityDirs : name \in d

\* The check passes; load_hooks, which follows, swallows every exception and
\* sets nothing that a later phase reads.
SanityCheck ==
    /\ pc = "sanity_check"
    /\ LooksLikeSite(dirs)
    /\ pc' = "prepare_output"
    /\ UNCHANGED << yaml_config, content, disk, options, all_pages, categories,
                    site_tree, subpages, tree_i, orphans, tag_dict, cursor, p,
                    templ_vars, new_pages, render_log, written, clock >>

\* sys.exit(1): the process ends with status 1.
SanityExit ==
    /\ pc = "sanity_check"
    /\ ~LooksLikeSite(dirs)
    /\ pc' = "exit_1"
    /\ UNCHANGED << yaml_config, content, disk, options, all_pages, categories,
                    site_tree, subpages, tree_i, orphans, tag_dict, cursor, p,
                    templ_vars, new_pages, render_log, written, clock >>

\* An output directory that is not emptied.
ResetOutputKeep(files) == files

\* shutil.rmtree of an existing output directory, then os.mkdir.
ResetOutput(files) == {}

\* An except clause that catches nothing.
CaughtErrorsNone == {}

\* The exceptions "except OSError" catches.  The code is Python 2, where
\* IOError (raised by shutil.copy when a file cannot be read or written) and
\* shutil.Error (raised by shutil.copytree) are not subclasses of OSError.
CaughtErrors == { "OSError" }

\* What the copy of one media entry, or os.listdir, may raise.
CopyErrors == { "OSError", "IOError" }

\* prepare_output.  k entries are copied; then the loop ends (err = "none")
\* or the next call raises err.  os.listdir of a missing media directory
\* raises OSError before anything is copied.
PrepareOutput(k, err) ==
    /\ pc = "prepare_output"
    /\ IF options.media_dir \in dirs
       THEN /\ k \in 0 .. Len(media)
            /\ IF k = Len(media) THEN err = "none" ELSE err \in CopyErrors
       ELSE k = 0 /\ err = "OSError"
    /\ dirs' = dirs \cup { options.output_dir }
    /\ output' = ResetOutput(output) \cup { media[i] : i \in 1 .. k }
    /\ copied' = k
    /\ copy_error' = err
    /\ pc' = IF err = "none" \/ err \in CaughtErrors THEN "load_pages" ELSE "crashed"
    /\ UNCHANGED << yaml_config, content, stale, media, options, all_pages,
                    categories, site_tree, subpages, tree_i, orphans, tag_dict,
                    cursor, p, templ_vars, new_pages, render_log, written, clock >>

\* load_pages appends a page only if its meta says published.
Published(f) == meta(f).published

\* os.walk of the content root; a missing root yields nothing.
Walk == IF options.content_dir \in dirs THEN content ELSE <<>>

\* A walk that does not skip hidden files.
ParsedAll(f) == TRUE

\* Files whose name starts with a dot are not parsed.
Parsed(f) == ~FileMeta[f].hidden

LoadPages ==
    /\ pc = "load_pages"
    /\ all_pages' = all_pages \o
           SelectSeq(SelectSeq(Walk, Parsed), Published)
    /\ pc' = "make_tree"
    /\ UNCHANGED << yaml_config, content, disk, options, categories, site_tree,
                    subpages, tree_i, orphans, tag_dict, cursor, p, templ_vars,
                    new_pages, render_log, written, clock >>

(***************************************************************************)
(* make_tree.                                                              *)
(***************************************************************************)
Depth(pg) == Len(meta(pg).category)

\* list.sort(key=...): a stable sort, here by insertion from the left; an
\* element goes behind every element whose key is not larger than its own.
RECURSIVE InsertByKey(_, _)
InsertByKey(sorted, x) ==
    IF sorted = <<>> THEN << x >>
    ELSE IF Depth(sorted[Len(sorted)]) <= Depth(x) THEN Append(sorted, x)
    ELSE Append(InsertByKey(SubSeq(sorted, 1, Len(sorted) - 1), x),
                sorted[Len(sorted)])

\* A make_tree that does not sort.
SortByDepthNone(pages) == pages

RECURSIVE SortByDepth(_)
SortByDepth(pages) ==
    IF pages = <<>> THEN <<>>
    ELSE InsertByKey(SortByDepth(SubSeq(pages, 1, Len(pages) - 1)),
                     pages[Len(pages)])

\* A siblings list is the roots (node 0) or the subpages of a page.
Siblings(tree, subs, node) == IF node = 0 THEN tree ELSE subs[node]

\* A descent that, finding no match, stays where it is instead of raising.
RECURSIVE DescendLenient(_, _, _, _)
DescendLenient(tree, subs, node, cats) ==
    IF cats = <<>> THEN node
    ELSE LET matching(s) == meta(s).slug = Head(cats)
             found == SelectSeq(Siblings(tree, subs, node), matching)
         IN  IF found = <<>> THEN node
             ELSE DescendLenient(tree, subs, found[1], Tail(cats))

\* The descent of lines 218-223 from `node` along the slugs `cats`: the node
\* whose siblings list the page is appended to, or -1 for the IndexError of
\* an empty match list.
RECURSIVE Descend(_, _, _, _)
Descend(tree, subs, node, cats) ==
    IF cats = <<>> THEN node
    ELSE LET matching(s) == meta(s).slug = Head(cats)
             found == SelectSeq(Siblings(tree, subs, node), matching)
         IN  IF found = <<>> THEN -1
             ELSE Descend(tree, subs, found[1], Tail(cats))

\* A listing kept under the slug of the page's parent.
ListedByParent(cats, pg) ==
    IF Len(meta(pg).category) > 0
    THEN LET parent == meta(pg).category[Len(meta(pg).category)]
             listing == IF parent \in DOMAIN cats THEN cats[parent] ELSE <<>>
         IN  DictPut(cats, parent, Append(listing, pg))
    ELSE cats

\* Lines 210-215: the listing of the page's top-level category.
ListedCategories(cats, pg) ==
    IF Len(meta(pg).category) > 0
    THEN LET top_cat == meta(pg).category[1]
             listing == IF top_cat \in DOMAIN cats THEN cats[top_cat] ELSE <<>>
         IN  DictPut(cats, top_cat, Append(listing, pg))
    ELSE cats

\* Lines 204-207.
MakeTreeBegin ==
    /\ pc = "make_tree"
    /\ categories' = EmptyDict
    /\ site_tree' = <<>>
    /\ all_pages' = SortByDepth(all_pages)
    /\ tree_i' = 0
    /\ pc' = "tree_loop"
    /\ UNCHANGED << yaml_config, content, disk, options, subpages, orphans, tag_dict,
                    cursor, p, templ_vars, new_pages, render_log, written, clock >>

\* A loop body that lists the page only once it is linked.
InsertPageListAfterLink(cats, tree, subs, log, pg) ==
    LET parent == Descend(tree, subs, 0, meta(pg).category)
    IN  [categories |-> IF parent < 0 THEN cats ELSE ListedCategories(cats, pg),
         site_tree  |-> IF parent = 0 THEN Append(tree, pg) ELSE tree,
         subpages   |-> IF parent > 0
                        THEN [subs EXCEPT ![parent] = Append(@, pg)]
                        ELSE subs,
         orphans    |-> IF parent < 0 THEN Append(log, pg) ELSE log]

\* The body of the loop of lines 209-227 for page pg: the listing first, then
\* the descent; the page is appended where the descent ends, or its path is
\* logged when the descent raises IndexError.
InsertPage(cats, tree, subs, log, pg) ==
    LET parent == Descend(tree, subs, 0, meta(pg).category)
    IN  [categories |-> ListedCategories(cats, pg),
         site_tree  |-> IF parent = 0 THEN Append(tree, pg) ELSE tree,
         subpages   |-> IF parent > 0
                        THEN [subs EXCEPT ![parent] = Append(@, pg)]
                        ELSE subs,
         orphans    |-> IF parent < 0 THEN Append(log, pg) ELSE log]

\* One iteration of the loop of lines 209-227.
MakeTreeStep ==
    /\ pc = "tree_loop"
    /\ tree_i < Len(all_pages)
    /\ LET after == InsertPage(categories, site_tree, subpages, orphans,
                               all_pages[tree_i + 1])
       IN  /\ categories' = after.categories
           /\ site_tree' = after.site_tree
           /\ subpages' = after.subpages
           /\ orphans' = after.orphans
    /\ tree_i' = tree_i + 1
    /\ UNCHANGED << pc, yaml_config, content, disk, options, all_pages, tag_dict,
                    cursor, p, templ_vars, new_pages, render_log, written, clock >>

\* The loop of make_tree is exhausted; __init__ calls render_site.
MakeTreeEnd ==
    /\ pc = "tree_loop"
    /\ tree_i >= Len(all_pages)
    /\ pc' = "render_site"
    /\ UNCHANGED << yaml_config, content, disk, options, all_pages, categories,
                    site_tree, subpages, tree_i, orphans, tag_dict, cursor, p,
                    templ_vars, new_pages, render_log, written, clock >>

(***************************************************************************)
(* render_site.                                                            *)
(***************************************************************************)
\* A tag index whose entries list the pages last first.
TagIndexReversed(pages) ==
    LET tag_set == UNION { meta(pages[i]).tags : i \in DOMAIN pages }
    IN  [tag \in tag_set |->
            LET carries(pg) == tag \in meta(pg).tags
                listed == SelectSeq(pages, carries)
            IN  [i \in 1..Len(listed) |-> listed[Len(listed) + 1 - i]]]

\* Lines 232-237: the union of the tags, then per tag the pages carrying it.
TagIndex(pages) ==
    LET tag_set == UNION { meta(pages[i]).tags : i \in DOMAIN pages }
    IN  [tag \in tag_set |->
            LET carries(pg) == tag \in meta(pg).tags
            IN  SelectSeq(pages, carries)]

GatherTags ==
    /\ pc = "render_site"
    /\ tag_dict' = TagIndex(all_pages)
    /\ cursor' = 0
    /\ pc' = "loop"
    /\ UNCHANGED << yaml_config, content, disk, options, all_pages, categories,
                    site_tree, subpages, tree_i, orphans, p, templ_vars,
                    new_pages, render_log, written, clock >>

\* The keys lines 254-255 keep out of the site mapping.
ReservedKeys ==
    { "site_title", "output_dir", "content_dir", "templates_dir", "media_dir",
      "url_pattern" }

\* Lines 253-260: the options merged into templ_vars['site'].
MergedOptions(opts) ==
    LET merged == [k \in DOMAIN opts \ ReservedKeys |-> opts[k]]
    IN  IF "author" \in DOMAIN opts
        THEN DictPut(merged, "author", opts["author"])
        ELSE merged

\* A context that is given no categories.
BuildContextNoCategories(opts, tags, pages, cats, now) ==
    [keys |-> { "site" },
     site |-> [title      |-> IF "site_title" \in DOMAIN opts
                              THEN opts["site_title"] ELSE "Untitled",
               datetime   |-> now,
               tags       |-> tags,
               pages      |-> pages,
               categories |-> EmptyDict,
               opts       |-> MergedOptions(opts)]]

\* Lines 243-260.  tags and categories are the engine's own objects (the
\* context holds them by reference); pages is a copy of the list.
BuildContext(opts, tags, pages, cats, now) ==
    [keys |-> { "site" },
     site |-> [title      |-> IF "site_title" \in DOMAIN opts
                              THEN opts["site_title"] ELSE "Untitled",
               datetime   |-> now,
               tags       |-> tags,
               pages      |-> pages,
               categories |-> cats,
               opts       |-> MergedOptions(opts)]]

\* An iteration over the pages the list held when the loop began.
HasNextSnapshot(i, pages) == i < Len(pages) - Cardinality(Range(pages) \cap SpawnIds)

\* An iterator that does not move.
AdvanceStuck(i) == i

\* The list iterator of line 240: it holds an index and compares it with the
\* list's current length at every step.
HasNext(i, pages) == i < Len(pages)

Advance(i) == i + 1

\* Line 240 (one step of the iterator) and lines 243-260.
NextPage ==
    /\ pc = "loop"
    /\ HasNext(cursor, all_pages)
    /\ p' = all_pages[cursor + 1]
    /\ cursor' = Advance(cursor)
    /\ clock' = clock + 1
    /\ templ_vars' = BuildContext(options, tag_dict, all_pages, categories, clock')
    /\ pc' = "render"
    /\ UNCHANGED << yaml_config, content, disk, options, all_pages, categories,
                    site_tree, subpages, tree_i, orphans, tag_dict, new_pages,
                    render_log, written >>

\* The iterator is exhausted: render_site returns.
LoopExit ==
    /\ pc = "loop"
    /\ ~ HasNext(cursor, all_pages)
    /\ pc' = "done"
    /\ UNCHANGED << yaml_config, content, disk, options, all_pages, categories,
                    site_tree, subpages, tree_i, orphans, tag_dict, cursor, p,
                    templ_vars, new_pages, render_log, written, clock >>

\* What a render step may do to the context it was given.
Mutations == { "none", "keys", "title", "pages", "tags", "categories" }

Spawned(pages) == Cardinality(Range(pages) \cap SpawnIds)

\* The n pages a render step constructs, in the order it returns them.
FreshPages(pages, n) == [i \in 1..n |-> Len(FileMeta) + Spawned(pages) + i]

\* Line 263: p.render(templ_vars) returns n new pages and may have changed
\* the context, and whatever the context refers to, in place.
Render(n, mutation) ==
    /\ pc = "render"
    /\ render_log' = Append(render_log, p)
    /\ new_pages' = FreshPages(all_pages, n)
    /\ tag_dict' = IF mutation = "tags"
                   THEN DictPut(tag_dict, "injected", <<>>) ELSE tag_dict
    /\ categories' = IF mutation = "categories"
                     THEN DictPut(categories, "injected", <<>>) ELSE categories
    /\ templ_vars' =
          [keys |-> IF mutation = "keys"
                    THEN templ_vars.keys \cup { "injected" } ELSE templ_vars.keys,
           site |-> [templ_vars.site EXCEPT
                       !.title = IF mutation = "title" THEN "injected" ELSE @,
                       !.pages = IF mutation = "pages" THEN <<>> ELSE @,
                       !.tags = tag_dict',
                       !.categories = categories']]
    /\ pc' = "write"
    /\ UNCHANGED << yaml_config, content, disk, options, all_pages, site_tree,
                    subpages, tree_i, orphans, cursor, p, written, clock >>

\* A loop that catches what the render step raises and goes on.
RenderFailSwallowed ==
    /\ pc = "render"
    /\ render_log' = Append(render_log, p)
    /\ pc' = "loop"
    /\ UNCHANGED << yaml_config, content, disk, options, all_pages, categories,
                    site_tree, subpages, tree_i, orphans, tag_dict, cursor, p,
                    templ_vars, new_pages, written, clock >>

\* Line 263 raises: nothing catches it.
RenderFail ==
    /\ pc = "render"
    /\ render_log' = Append(render_log, p)
    /\ pc' = "aborted"
    /\ UNCHANGED << yaml_config, content, disk, options, all_pages, categories,
                    site_tree, subpages, tree_i, orphans, tag_dict, cursor, p,
                    templ_vars, new_pages, written, clock >>

\* A loop that puts what the render step returned in front of the list.
ExtendFront(pages, new) == new \o pages

\* A loop that drops what the render step returned.
ExtendDropped(pages, new) == pages

\* Lines 265-267: "self.all_pages += new_pages" extends the list in place.
Extend(pages, new) == IF new # <<>> THEN pages \o new ELSE pages

\* The path of a category, as url_pattern's {category} spells it.
RECURSIVE CategoryPath(_)
CategoryPath(cat) ==
    IF cat = <<>> THEN ""
    ELSE cat[1] \o "/" \o CategoryPath(Tail(cat))

\* The file page.write (not in src/) creates below the output directory:
\* url_pattern's {category}/{slug}{page}.{type}; a returned page is a later
\* page of a pagination.
OutFile(pg) ==
    CategoryPath(meta(pg).category) \o meta(pg).slug
        \o (IF pg \in SpawnIds THEN ToString(pg - Len(FileMeta) + 1) ELSE "")
        \o ".html"

\* A context whose page list is the list itself.
ContextPagesAliased(ctx_pages, pages) == pages

\* Line 248 puts a copy of the list ("[:]") into the context: extending
\* self.all_pages does not reach the page list of a context.
ContextPagesAfterExtend(ctx_pages, pages) == ctx_pages

\* A loop that goes on to the next page without writing this one.
WriteSkipped ==
    /\ pc = "write"
    /\ all_pages' = Extend(all_pages, new_pages)
    /\ pc' = "loop"
    /\ UNCHANGED << yaml_config, content, disk, options, categories, site_tree,
                    subpages, tree_i, orphans, tag_dict, cursor, p, templ_vars,
                    new_pages, render_log, written, clock >>

\* Lines 264-267: p.write(), then the new pages go to the end of the list.
Write ==
    /\ pc = "write"
    /\ written' = Append(written, p)
    /\ output' = output \cup { OutFile(p) }
    /\ all_pages' = Extend(all_pages, new_pages)
    /\ templ_vars' = [templ_vars EXCEPT
           !.site.pages = ContextPagesAfterExtend(@, all_pages')]
    /\ pc' = "loop"
    /\ UNCHANGED << yaml_config, content, dirs, stale, media, copied, copy_error,
                    options, categories, site_tree, subpages, tree_i, orphans,
                    tag_dict, cursor, p, new_pages, render_log, clock >>

\* Line 264 raises: nothing catches it.
WriteFail ==
    /\ pc = "write"
    /\ pc' = "aborted"
    /\ UNCHANGED << yaml_config, content, disk, options, all_pages, categories,
                    site_tree, subpages, tree_i, orphans, tag_dict, cursor, p,
                    templ_vars, new_pages, render_log, written, clock >>

Next ==
    \/ ReadOptions
    \/ SanityCheck
    \/ SanityExit
    \/ \E k \in 0 .. Len(media), err \in CopyErrors \cup { "none" } :
          PrepareOutput(k, err)
    \/ LoadPages
    \/ MakeTreeBegin
    \/ MakeTreeStep
    \/ MakeTreeEnd
    \/ GatherTags
    \/ NextPage
    \/ LoopExit
    \/ \E n \in 0..MaxSpawn, mutation \in Mutations :
          /\ Spawned(all_pages) + n <= MaxSpawn
          /\ Render(n, mutation)
    \/ RenderFail
    \/ Write
    \/ WriteFail

Spec == Init /\ [][Next]_vars

\* The runs whose walk lists the content files in name order; the
\* interpreter runs the next statement, so a run does not stop midway.
WalkInOrder == \A i, j \in DOMAIN content : i < j => content[i] < content[j]

LiveInit == Init /\ WalkInOrder

LiveSpec == LiveInit /\ [][Next]_vars /\ WF_vars(Next)

TypeOK ==
    /\ pc \in { "read_options", "sanity_check", "exit_1", "prepare_output",
                "crashed", "load_pages", "make_tree", "tree_loop",
                "render_site", "loop", "render", "write", "done", "aborted" }
    /\ output \subseteq StaleFiles \cup Range(MediaEntries)
                      \cup { OutFile(q) : q \in PageIds }
    /\ copied \in 0 .. Len(media)
    /\ copy_error \in CopyErrors \cup { "none" }
    /\ Range(all_pages) \subseteq PageIds
    /\ cursor \in 0..Len(all_pages)

(***************************************************************************)
(* The worklist of render_site.                                            *)
(***************************************************************************)
Rendered == Range(render_log)

Written == Range(written)

Ended == pc \in { "done", "aborted", "exit_1", "crashed" }

\* C1: in a run without a failing render or write step, every page a render
\* step returns, directly or through a chain of spawns, is rendered and
\* written before render_site returns: a returned page leads to its own
\* write (or to the abort of the run), and when render_site has returned
\* every page of the list, and the last pages returned, are rendered and
\* written.
C1_WorklistExhaustive ==
    /\ \A q \in SpawnIds :
          (pc = "write" /\ q \in Range(new_pages))
              ~> (pc = "aborted" \/ (pc = "done" /\ q \in Written))
    /\ [](pc = "done" =>
             /\ Range(new_pages) \subseteq Range(all_pages)
             /\ Range(all_pages) \subseteq Rendered \cap Written)

\* A run that returned after render steps had returned two pages, the last
\* but one page rendered being a returned page; all of them are written.
C1_Witness ==
    /\ pc = "done"
    /\ Spawned(all_pages) >= 2
    /\ Len(render_log) >= 3
    /\ render_log[Len(render_log) - 1] \in SpawnIds
    /\ new_pages = <<>>
    /\ SpawnIds \cap Range(all_pages) \subseteq Written

\* C2: the render step and the write step of a page of the worklist are
\* invoked at most once each.
C2_AtMostOnce ==
    /\ NoDuplicates(all_pages)
    /\ NoDuplicates(render_log)
    /\ NoDuplicates(written)
    /\ Len(render_log) <= Len(all_pages)

C2_Witness ==
    /\ pc = "loop"
    /\ Len(written) >= 2
    /\ Spawned(all_pages) >= 1
    /\ cursor < Len(all_pages)

\* C3: render_site terminates when finitely many pages are spawned, and it
\* returns exactly when the iterator has reached the end of the list as it
\* then is: every entry of the final list has been rendered and written.
C3_TerminatesByExhaustion ==
    /\ <>Ended
    /\ [](pc = "done" =>
             /\ cursor = Len(all_pages)
             /\ render_log = all_pages
             /\ written = all_pages)

C3_Witness ==
    /\ pc = "done"
    /\ cursor = Len(all_pages)
    /\ Len(all_pages) > Len(content)
    /\ Len(content) >= 2

(***************************************************************************)
(* The category forest of make_tree.                                       *)
(***************************************************************************)
\* The pages load_pages kept, in walk order, and as a set.
LoadedSeq == SelectSeq(SelectSeq(Walk, Parsed), Published)

Loaded == Range(LoadedSeq)

\* make_tree has just returned.
TreeReturned == pc = "render_site"

\* make_tree has processed every page.
TreeBuilt ==
    pc \in { "render_site", "loop", "render", "write", "done", "aborted" }

\* The page is linked into the forest: among the roots or among the subpages
\* of some node.
Linked(q) ==
    \/ q \in Range(site_tree)
    \/ \E n \in PageIds : q \in Range(subpages[n])

\* The number of places of the forest that hold the page.
RECURSIVE Places(_, _)
Places(q, nodes) ==
    IF nodes = {} THEN Len(SelectSeq(site_tree, LAMBDA r : r = q))
    ELSE LET n == CHOOSE x \in nodes : TRUE
         IN  Len(SelectSeq(subpages[n], LAMBDA r : r = q)) + Places(q, nodes \ {n})

\* r is a page that q's category path names as q's parent.
ParentFor(q, r) ==
    /\ meta(q).category # <<>>
    /\ meta(r).slug = meta(q).category[Len(meta(q).category)]
    /\ meta(r).category = SubSeq(meta(q).category, 1, Len(meta(q).category) - 1)

\* Every slug of q's category path, from the roots, names a page of S that
\* is itself in the forest.
RECURSIVE Resolves(_, _)
Resolves(q, S) ==
    \/ meta(q).category = <<>>
    \/ \E r \in S : ParentFor(q, r) /\ Resolves(r, S)

\* C4: after make_tree a page is linked into the forest (once, under a node
\* its path names) iff every slug of its category path matches an inserted
\* node at its level; a page with an empty path is among the roots; every
\* page that fails the lookup is reported as an orphan, is linked nowhere,
\* and is still in all_pages.
C4_ForestIffPathResolves ==
    TreeReturned =>
       /\ \A q \in Loaded :
             /\ Linked(q) <=> Resolves(q, Loaded)
             /\ Places(q, PageIds) = IF Resolves(q, Loaded) THEN 1 ELSE 0
             /\ meta(q).category = <<>> => q \in Range(site_tree)
             /\ q \in Range(orphans) <=> ~ Resolves(q, Loaded)
             /\ q \in Range(orphans) => ~ Linked(q) /\ q \in Range(all_pages)
       /\ \A r \in Range(site_tree) : meta(r).category = <<>>
       /\ \A n \in PageIds : \A q \in Range(subpages[n]) : ParentFor(q, n)
       /\ NoDuplicates(orphans)

\* A built forest that holds a page below a root and has an orphan.
C4_Witness ==
    /\ TreeReturned
    /\ \E q \in Loaded : Len(meta(q).category) >= 1 /\ Linked(q)
    /\ \E q \in Loaded : q \in Range(orphans)

\* Every page of S names only ancestors that are in S.
AncestorsExist(S) == \A q \in S : Resolves(q, S)

\* sorted is a stable sort of original by category-path length.
StableSortedByDepth(sorted, original) ==
    /\ Len(sorted) = Len(original)
    /\ Range(sorted) = Range(original)
    /\ \A i, j \in DOMAIN sorted : i < j => Depth(sorted[i]) <= Depth(sorted[j])
    /\ \A i, j \in DOMAIN original :
          (i < j /\ Depth(original[i]) = Depth(original[j])) =>
             \E k, l \in DOMAIN sorted :
                k < l /\ sorted[k] = original[i] /\ sorted[l] = original[j]

\* No two pages of S have the same slug under the same category path.
UniqueSiblings(S) ==
    \A q, r \in S :
       (meta(q).slug = meta(r).slug /\ meta(q).category = meta(r).category) => q = r

\* C5: make_tree inserts the pages in non-decreasing category-path length,
\* stable for equal lengths, so for every load order of a page set whose
\* ancestors all exist no page is an orphan and every page with a category
\* path hangs under a page that its path names (a holds b, b holds c); and
\* where sibling slugs are unique, who is whose child is fixed by the set of
\* pages alone, whatever the order they were loaded in.
C5_DepthOrderedInsertion ==
    /\ pc = "tree_loop" => StableSortedByDepth(all_pages, LoadedSeq)
    /\ (TreeReturned /\ UniqueSiblings(Loaded)) =>
          \A q \in Loaded : \A n \in PageIds :
             q \in Range(subpages[n]) <=>
                (n \in Loaded /\ ParentFor(q, n) /\ Resolves(n, Loaded))
    /\ (TreeReturned /\ AncestorsExist(Loaded)) =>
          /\ orphans = <<>>
          /\ \A q \in Loaded :
                IF meta(q).category = <<>>
                THEN q \in Range(site_tree)
                ELSE \E r \in Loaded : ParentFor(q, r) /\ q \in Range(subpages[r])

\* c, b, a were loaded deepest first, and a holds b, which holds c.
C5_Witness ==
    /\ TreeReturned
    /\ LoadedSeq = << 3, 2, 1 >>
    /\ site_tree = << 1 >>
    /\ subpages[1] = << 2 >>
    /\ subpages[2] = << 3 >>

\* C6: an orphan does not stop the run and loses only its place in the
\* forest: make_tree goes on to process the pages behind it, and the orphan
\* stays in all_pages, in the listing of its first category slug and in the
\* tag index entry of each of its tags, and is rendered and written like any
\* other page.
C6_OrphanKeepsAllButLinkage ==
    /\ TreeBuilt =>
          /\ tree_i = Len(LoadedSeq)
          /\ \A q \in Loaded : Linked(q) \/ q \in Range(orphans)
          /\ \A o \in Range(orphans) :
                /\ o \in Range(all_pages)
                /\ ~ Linked(o)
                /\ meta(o).category[1] \in DOMAIN categories
                /\ o \in Range(categories[meta(o).category[1]])
    /\ pc \in { "loop", "render", "write", "done", "aborted" } =>
          \A o \in Range(orphans) : \A t \in meta(o).tags :
             t \in DOMAIN tag_dict /\ o \in Range(tag_dict[t])
    /\ pc = "done" => Range(orphans) \subseteq Rendered \cap Written

\* A finished run in which make_tree met an orphan and then linked the page
\* behind it; the orphan carries a tag and was rendered and written.
C6_Witness ==
    /\ pc = "done"
    /\ \E i, j \in DOMAIN all_pages :
          /\ i < j
          /\ all_pages[i] \in Range(orphans)
          /\ all_pages[j] \in Loaded
          /\ Linked(all_pages[j])
          /\ meta(all_pages[i]).tags # {}
          /\ all_pages[i] \in Written

(***************************************************************************)
(* The template context of render_site.                                    *)
(***************************************************************************)
\* The pages of the list that load_pages put there, in list order.
LoadedInOrder == SelectSeq(all_pages, LAMBDA q : q \in FileIds)

\* sub holds elements of full, each once, in the order of full.
OrderedWithin(sub, full) ==
    /\ NoDuplicates(sub)
    /\ Range(sub) \subseteq Range(full)
    /\ \A i, j \in DOMAIN sub : i < j =>
          \E k, l \in DOMAIN full : k < l /\ full[k] = sub[i] /\ full[l] = sub[j]

\* index maps every tag on a page of pages to exactly the pages carrying it,
\* in the order of pages.
IndexesExactly(index, pages) ==
    /\ DOMAIN index = UNION { meta(q).tags : q \in Range(pages) }
    /\ \A t \in DOMAIN index :
          /\ Range(index[t]) = { q \in Range(pages) : t \in meta(q).tags }
          /\ OrderedWithin(index[t], pages)

\* C7 as claimed: the tag index handed to a page's context maps every tag
\* on a page of the flat collection to exactly the pages of the flat
\* collection that carry it, in its order.
C7_IndexCoversFlatCollection ==
    pc = "render" =>
       \A t \in UNION { meta(q).tags : q \in Range(all_pages) } :
          /\ t \in DOMAIN templ_vars.site.tags
          /\ Range(templ_vars.site.tags[t]) =
                { q \in Range(all_pages) : t \in meta(q).tags }
          /\ OrderedWithin(templ_vars.site.tags[t], all_pages)

\* A step of render_site itself leaves the index as it is; a render step
\* changes it only by what it does to it in place through its context.
IndexKept ==
    /\ pc \in { "loop", "write" } => tag_dict' = tag_dict
    /\ pc = "render" =>
          \/ tag_dict' = tag_dict
          \/ tag_dict' = templ_vars'.site.tags /\ pc' = "write"

\* C7, amended: the tag index is computed once, before the first render,
\* from the flat collection as it is then, and maps every tag on a loaded
\* page to exactly the loaded pages carrying it, in flat-collection order;
\* every context receives that one index, and no step of render_site itself
\* changes it afterwards: a page a render step returns is not added to it.
C7_IndexOfLoadedPages ==
    /\ []((pc \in { "loop", "render" } /\ render_log = <<>>) =>
             IndexesExactly(tag_dict, LoadedInOrder) /\ LoadedInOrder = all_pages)
    /\ [](pc = "render" => templ_vars.site.tags = tag_dict)
    /\ [][IndexKept]_vars

\* The context of a returned page that carries tag t1: the index the context
\* holds does not list the page under t1.
C7_Witness ==
    /\ pc = "render"
    /\ p \in SpawnIds
    /\ "t1" \in meta(p).tags
    /\ "t1" \in DOMAIN templ_vars.site.tags
    /\ p \notin Range(templ_vars.site.tags["t1"])
    /\ Len(templ_vars.site.tags["t1"]) >= 2

\* The listings make_tree builds from pages, in order (lines 209-215).
RECURSIVE CategoriesOf(_)
CategoriesOf(pages) ==
    IF pages = <<>> THEN EmptyDict
    ELSE ListedCategories(CategoriesOf(SubSeq(pages, 1, Len(pages) - 1)),
                          pages[Len(pages)])

\* C8: whatever the render steps of earlier pages did to their contexts, the
\* context built for a page is the one it would have been without it: the
\* title, the time, the index of the loaded pages, the current list, the
\* listings make_tree built and the merged options.
C8_ContextIsolation ==
    pc = "render" =>
       templ_vars = BuildContext(options, TagIndex(LoadedInOrder), all_pages,
                                 CategoriesOf(LoadedInOrder), clock)

\* The keys the claim names as reserved.
ReservedInClaim ==
    { "site_title", "output_dir", "content_dir", "template_dir", "media_dir",
      "url_pattern" }

\* C9: the configuration keys merged into the site mapping are exactly the
\* configuration keys outside the reserved set (site_title, output_dir,
\* content_dir, template_dir, media_dir, url_pattern), each bound to its
\* configured value.
C9_ReservedKeysNotMerged ==
    pc = "render" =>
       /\ DOMAIN templ_vars.site.opts = DOMAIN options \ ReservedInClaim
       /\ \A k \in DOMAIN templ_vars.site.opts : templ_vars.site.opts[k] = options[k]

\* The pages that can be reached from the listings of a categories mapping
\* through subpages.
RECURSIVE ReachableFrom(_)
ReachableFrom(nodes) ==
    LET more == nodes \cup UNION { Range(subpages[n]) : n \in nodes }
    IN  IF more = nodes THEN nodes ELSE ReachableFrom(more)

ListedIn(cats) == UNION { Range(cats[c]) : c \in DOMAIN cats }

\* C10 as claimed: the context of every page holds the forest make_tree
\* built: every page that is not an orphan, the roots with an empty category
\* path included, can be reached from the context's categories entry.
C10_ContextHoldsForest ==
    pc = "render" =>
       \A q \in Loaded :
          Linked(q) => q \in ReachableFrom(ListedIn(templ_vars.site.categories))

\* A step of render_site itself leaves self.categories as it is; a render
\* step changes it only by what it does to it in place through its context.
ListingsKept ==
    /\ pc \in { "loop", "write" } => categories' = categories
    /\ pc = "render" =>
          \/ categories' = categories
          \/ categories' = templ_vars'.site.categories /\ pc' = "write"

\* C10, amended: the categories entry of every context is self.categories,
\* the listings per top-level slug that make_tree built, not the roots of
\* the forest: as make_tree left it, a loaded page can be reached from it
\* (directly or through subpages) iff its category path is not empty, orphan
\* or not, so a root page with an empty path cannot; render_site itself never
\* changes the listings.
C10_ContextHoldsListings ==
    /\ [](pc = "render" => templ_vars.site.categories = categories)
    /\ []((pc = "render" /\ render_log = <<>>) =>
             \A q \in Loaded :
                /\ q \in ListedIn(templ_vars.site.categories)
                      <=> meta(q).category # <<>>
                /\ q \in ReachableFrom(ListedIn(templ_vars.site.categories))
                      <=> meta(q).category # <<>>)
    /\ [][ListingsKept]_vars

\* The first context of a run whose forest has a root and a page below it:
\* the page below is listed, the root cannot be reached.
C10_Witness ==
    /\ pc = "render"
    /\ render_log = <<>>
    /\ \E r \in Range(site_tree), q \in Loaded :
          /\ q \in Range(subpages[r])
          /\ q \in ListedIn(templ_vars.site.categories)
          /\ r \notin ReachableFrom(ListedIn(templ_vars.site.categories))

(***************************************************************************)
(* Failures of the render and the write step.                              *)
(***************************************************************************)
\* The entries of the list in front of position i.
Before(i) == { all_pages[j] : j \in 1 .. (i - 1) }

\* No step leaves the state a raised exception has led to; the step that
\* leads to it appends nothing to the list, writes nothing and removes
\* nothing, and the pages a render step had returned stay out of the list.
AbortStep ==
    /\ pc # "aborted"
    /\ pc' = "aborted" =>
          /\ pc \in { "render", "write" }
          /\ UNCHANGED << all_pages, written, output >>
          /\ pc = "write" =>
                Range(new_pages) \cap (Range(all_pages') \cup Range(render_log')) = {}

\* C11: an exception of the render or the write step of page P is not
\* caught.  render_site aborts at P: the run takes no further step, no page
\* behind P in the list is rendered or written, the pages P's own render
\* returned are neither appended, rendered nor written, P is not recorded
\* as written, and the files written for the pages in front of P are in
\* the output directory.
C11_FailurePropagates ==
    /\ [](pc = "aborted" =>
             /\ cursor \in DOMAIN all_pages
             /\ all_pages[cursor] = p
             /\ Rendered = Before(cursor) \cup { p }
             /\ Written = Before(cursor)
             /\ { OutFile(q) : q \in Written } \subseteq output)
    /\ [][AbortStep]_vars

\* The write step of the second page failed after its render step had
\* returned a page; the first page is written and a third page is left.
C11_Witness ==
    /\ pc = "aborted"
    /\ Len(written) = 1
    /\ OutFile(written[1]) \in output
    /\ Len(render_log) = 2
    /\ new_pages # <<>>
    /\ cursor < Len(all_pages)

(***************************************************************************)
(* The interleaving of render and write steps.                             *)
(***************************************************************************)
\* s is an initial segment of t.
IsPrefix(s, t) == Len(s) <= Len(t) /\ s = SubSeq(t, 1, Len(s))

\* C12: the write step of a page follows its render step and precedes the
\* render step of every other page.  The written pages are the rendered
\* pages in the same order, short of at most the last one; whenever a
\* render step is about to start, and when the loop has ended, every
\* rendered page is written; between a render step and its write step the
\* one page rendered and not written is the loop's current page.
C12_WriteFollowsRender ==
    /\ IsPrefix(written, render_log)
    /\ Len(render_log) - Len(written) <= 1
    /\ pc \in { "loop", "render", "done" } => written = render_log
    /\ pc = "write" => render_log = Append(written, p)

\* A returned page is rendered and not yet written; two pages are written.
C12_Witness ==
    /\ pc = "write"
    /\ p \in SpawnIds
    /\ Len(written) = 2
    /\ render_log = Append(written, p)

(***************************************************************************)
(* The startup phases: sanity_check, prepare_output, load_pages.           *)
(***************************************************************************)
\* Neither the template root nor the content root of the options exists.
RootsMissing ==
    /\ options.template_dir \notin dirs
    /\ options.content_dir \notin dirs

\* The run has gone on behind sanity_check.
PastSanityCheck == pc \notin { "read_options", "sanity_check", "exit_1" }

\* C13: the run exits with status 1 if and only if both the template root
\* and the content root are missing.  After the exit no later phase has
\* run: the output directory holds what it held, and no page is loaded,
\* rendered or written.  When one of the two roots exists the run goes on
\* to prepare_output.
C13_ExitIffBothRootsMissing ==
    /\ pc = "exit_1" =>
          /\ RootsMissing
          /\ output = stale
          /\ all_pages = <<>> /\ render_log = <<>> /\ written = <<>>
    /\ PastSanityCheck => ~RootsMissing

\* The media entries prepare_output has copied.
CopiedMedia == { media[i] : i \in 1 .. copied }

\* The files the write steps of this run have created.
PageFiles == { OutFile(q) : q \in Written }

\* prepare_output has returned.
OutputPrepared == PastSanityCheck /\ pc \notin { "prepare_output", "crashed" }

\* C14: prepare_output empties the output directory before any page is
\* written.  From its return on, whatever the directory held before the
\* run, it holds exactly the copied media entries and the files written
\* by the pages of this run; after a completed run whose copy met no error
\* that is every media entry and the file of every page of the list, so
\* the result is a function of the input and a second run on the same
\* input yields the same set of files.
C14_OutputReset ==
    /\ OutputPrepared => output = CopiedMedia \cup PageFiles
    /\ pc = "load_pages" => output = CopiedMedia
    /\ pc = "done" /\ copy_error = "none" =>
          output = Range(media) \cup { OutFile(q) : q \in Range(all_pages) }

\* A completed run over an output directory that held files of an earlier
\* run: the stale page is gone, the media entries are copied and a page and
\* a returned page are written.
C14_Witness ==
    /\ pc = "done"
    /\ "old.html" \in stale
    /\ "old.html" \notin output
    /\ copy_error = "none"
    /\ Range(media) \subseteq output
    /\ media # <<>>
    /\ Spawned(all_pages) >= 1
    /\ PageFiles \subseteq output

\* The content files load_pages has to keep: not hidden, and published.
Eligible(f) == ~FileMeta[f].hidden /\ FileMeta[f].published

\* The content files that are hidden or unpublished.
Ineligible == { f \in FileIds : ~Eligible(f) }

\* Every page some structure of the pipeline holds.
Held ==
    Range(all_pages) \cup Range(site_tree)
        \cup UNION { Range(subpages[q]) : q \in PageIds }
        \cup UNION { Range(categories[c]) : c \in DOMAIN categories }
        \cup UNION { Range(tag_dict[t]) : t \in DOMAIN tag_dict }
        \cup Range(templ_vars.site.pages)
        \cup Range(new_pages) \cup Rendered \cup Written

\* C15: load_pages keeps only published pages.  When it returns, the flat
\* collection is exactly the walk's files that are not hidden and whose
\* published flag is true, in walk order; and at no time is a hidden or an
\* unpublished file in the flat collection, the forest, a listing, the tag
\* index or a context, nor rendered, nor written to the output directory.
C15_OnlyPublishedPages ==
    /\ pc = "make_tree" => all_pages = SelectSeq(Walk, Eligible)
    /\ Held \cap Ineligible = {}
    /\ \A f \in Ineligible : OutFile(f) \notin output

\* A completed run whose walk found a published page, an unpublished page
\* and a hidden file: only the first is in the list and written.
C15_Witness ==
    /\ pc = "done"
    /\ \E f \in Range(Walk) : FileMeta[f].hidden
    /\ \E f \in Range(Walk) : ~FileMeta[f].hidden /\ ~FileMeta[f].published
    /\ \E f \in Range(Walk) : Eligible(f) /\ f \in Written /\ OutFile(f) \in output

\* The run went on behind prepare_output although the copy raised.
CopyErrorSurvived == copy_error # "none" /\ OutputPrepared

\* C16 as stated: whatever the media copy raises, and wherever, it is
\* swallowed: prepare_output raises nothing, the entries already copied
\* stay, and the run goes on to load, link and render every page.
C16_AnyCopyFailureSwallowed ==
    /\ pc # "crashed"
    /\ CopyErrorSurvived => CopiedMedia \subseteq output
    /\ pc = "done" /\ copy_error # "none" => written = all_pages

\* C16: the media copy swallows OSError, and nothing else.  A missing media
\* directory makes os.listdir raise OSError before anything is copied.  After
\* an OSError prepare_output returns, the entries copied before it stay in
\* the output directory, and the run loads, renders and writes its pages
\* as it does after a complete copy.  An IOError leaves prepare_output
\* uncaught: the run ends before a page is loaded, and the output
\* directory holds the entries copied until then.
C16_OnlyOSErrorSwallowed ==
    /\ copy_error = "OSError" => pc # "crashed"
    /\ CopyErrorSurvived => copy_error = "OSError" /\ CopiedMedia \subseteq output
    /\ options.media_dir \notin dirs /\ OutputPrepared =>
          copy_error = "OSError" /\ copied = 0
    /\ pc = "done" /\ copy_error = "OSError" =>
          /\ all_pages # <<>> \/ SelectSeq(Walk, Eligible) = <<>>
          /\ written = all_pages
          /\ output = CopiedMedia \cup { OutFile(q) : q \in Range(all_pages) }
    /\ pc = "crashed" =>
          /\ copy_error = "IOError"
          /\ output = CopiedMedia
          /\ all_pages = <<>> /\ render_log = <<>> /\ written = <<>>

\* A completed run whose copy of the second media entry raised OSError:
\* the first entry and a page are in the output directory.
C16_Witness ==
    /\ pc = "done"
    /\ copy_error = "OSError"
    /\ options.media_dir \in dirs
    /\ copied = 1
    /\ media[1] \in output
    /\ written # <<>>

(***************************************************************************)
(* The page list of a context, and the order of the worklist.              *)
(***************************************************************************)
\* The write step, and the append behind it, leave the page list of the
\* context as it is.
ContextPagesKept ==
    pc = "write" => templ_vars'.site.pages = templ_vars.site.pages

\* C17: the page list in the context of page P is the list as it is when
\* P's render step starts: it holds the pages returned by the render steps
\* completed before, and none returned by P's render step or a later one.
\* A context never comes to hold a page appended after it was built: the
\* append leaves its page list unchanged, and that list stays an initial
\* segment of the list free of the pages just returned.
C17_ContextPagesSnapshot ==
    /\ [](pc = "render" => templ_vars.site.pages = all_pages)
    /\ [](pc \in { "write", "loop", "done" } =>
             /\ IsPrefix(templ_vars.site.pages, all_pages)
             /\ Range(templ_vars.site.pages) \cap Range(new_pages) = {})
    /\ [][ContextPagesKept]_vars

\* A page whose context held a page returned earlier has itself returned a
\* page, which is appended to the list and is not in that context.
C17_Witness ==
    /\ pc = "loop"
    /\ new_pages # <<>>
    /\ Range(new_pages) \subseteq Range(all_pages)
    /\ Range(templ_vars.site.pages) \cap SpawnIds # {}
    /\ Len(templ_vars.site.pages) < Len(all_pages)

\* render_site's loop is running or has ended.
InRenderLoop == pc \in { "loop", "render", "write", "done", "aborted" }

\* The position of a page in the list.
IndexOf(q) == CHOOSE i \in DOMAIN all_pages : all_pages[i] = q

\* The list changes only by the append behind a write step, which puts the
\* pages returned at its end, in the order returned.
AppendedAtEnd ==
    /\ pc = "write" /\ pc' = "loop" => all_pages' = all_pages \o new_pages
    /\ InRenderLoop /\ pc # "write" => all_pages' = all_pages

\* C18: render_site processes the pages strictly in the order of the list.
\* The pages rendered so far are an initial segment of the list; returned
\* pages go to its end in the order returned; when a returned page is
\* rendered, every page in front of it in the list is rendered and
\* written; and the loaded pages, which come first, stand in the stable
\* depth-ascending order make_tree's sort left.
C18_WorklistOrder ==
    /\ [](InRenderLoop =>
             /\ IsPrefix(render_log, all_pages)
             /\ \A q \in Rendered \cap SpawnIds : Before(IndexOf(q)) \subseteq Written
             /\ StableSortedByDepth(SubSeq(all_pages, 1, Len(LoadedSeq)), LoadedSeq)
             /\ \A i \in DOMAIN all_pages : i > Len(LoadedSeq) => all_pages[i] \in SpawnIds)
    /\ [][AppendedAtEnd]_vars

\* A completed run that loaded a deeper page before a shallower one and
\* whose render steps returned pages twice.
C18_Witness ==
    /\ pc = "done"
    /\ Len(LoadedSeq) >= 2
    /\ Depth(LoadedSeq[1]) > Depth(LoadedSeq[2])
    /\ Spawned(all_pages) = 2
    /\ render_log = all_pages
    /\ new_pages = <<>>

(***************************************************************************)
(* The per-top-level-category listings.                                    *)
(***************************************************************************)
\* The page's category path is not empty and starts with c.
Under(c, q) == meta(q).category # <<>> /\ meta(q).category[1] = c

\* The slugs some loaded page's category path starts with.
TopSlugs == { meta(q).category[1] : q \in { r \in Loaded : meta(r).category # <<>> } }

\* C19: when make_tree has returned, categories has a listing for exactly
\* the slugs some loaded page's category path starts with, and the listing
\* of c holds exactly the loaded pages whose path is not empty and starts
\* with c, orphans included, each once, in the depth-ascending order in
\* which make_tree processed them.  A page with an empty path is in no
\* listing, and no listing is empty, neither then nor while make_tree runs.
C19_ListingsByTopCategory ==
    /\ TreeReturned =>
          /\ DOMAIN categories = TopSlugs
          /\ \A c \in TopSlugs :
                /\ categories[c] = SelectSeq(all_pages, LAMBDA q : Under(c, q))
                /\ \A i, j \in DOMAIN categories[c] :
                      i < j => Depth(categories[c][i]) <= Depth(categories[c][j])
          /\ \A q \in Loaded :
                meta(q).category = <<>> => q \notin ListedIn(categories)
    /\ pc \in { "tree_loop", "render_site" } =>
          \A c \in DOMAIN categories : categories[c] # <<>>

\* make_tree has returned; a listing holds two pages, loaded deeper page
\* first, and an orphan is listed.
C19_Witness ==
    /\ TreeReturned
    /\ \E c \in DOMAIN categories :
          /\ Len(categories[c]) = 2
          /\ Depth(categories[c][1]) < Depth(categories[c][2])
          /\ \E i, j \in DOMAIN LoadedSeq :
                i < j /\ LoadedSeq[i] = categories[c][2] /\ LoadedSeq[j] = categories[c][1]
    /\ \E q \in Range(orphans) : q \in ListedIn(categories)

(***************************************************************************)
(* What render_site changes.                                               *)
(***************************************************************************)
\* The pages the tag index, the forest and the listings hold.
Indexed ==
    UNION { Range(tag_dict[t]) : t \in DOMAIN tag_dict }
        \cup Range(site_tree)
        \cup UNION { Range(subpages[q]) : q \in PageIds }
        \cup ListedIn(categories)

\* A step of the render loop appends returned pages to the list, or leaves
\* the list alone, and changes neither the tag index, nor the forest, nor
\* the listings.
RenderFrame ==
    pc \in { "loop", "render", "write" } =>
       /\ IsPrefix(all_pages, all_pages')
       /\ \A i \in DOMAIN all_pages' : i > Len(all_pages) => all_pages'[i] \in SpawnIds
       /\ UNCHANGED << tag_dict, site_tree, subpages, categories >>

\* C20: during render_site the only change to the shared state of the
\* pipeline is that returned pages are appended to the end of the flat
\* collection.  The entries of the collection are never removed or
\* reordered; the tag index, the forest and the listings stay as they were
\* computed before the first render step; and a returned page is never in
\* the tag index, the forest or a listing.
C20_RenderFrame ==
    /\ [][RenderFrame]_vars
    /\ [](Indexed \cap SpawnIds = {})
====
